---- MODULE Spec2Model ----
(***************************************************************************)
(* A model of aibolit/config.py: the Singleton metaclass, the settings     *)
(* accessors of Config (environment override, else a default), and the     *)
(* analyzer catalog returned by Config.get_patterns_config().              *)
(*                                                                         *)
(* A Python str is a sequence of one-character strings, so that pathlib's  *)
(* joining and normalisation is computed, not assumed.  A value returned   *)
(* by an accessor is a record [type, v]: type "str" (an os.environ value), *)
(* "Path" (a pathlib.Path, v its str()) or "None".                         *)
(***************************************************************************)
EXTENDS Integers, Sequences, FiniteSets, TLC

VARIABLES
    environ,      \* os.environ: a dict from variable names to str
    dir_path,     \* os.path.dirname(os.path.realpath(__file__)) of config.py
    lastQuery,    \* the latest settings query and what it returned
    instances,    \* Singleton._instances: a dict from class to instance
    allocated,    \* how many Config objects were ever constructed
    pc,           \* per thread: position inside Singleton.__call__
    obj,          \* per thread: the object built by super().__call__
    calls,        \* per thread: how many Config() calls it has started
    returned,     \* the instances that Config() calls have returned
    heap,         \* the catalog dicts built so far (one cell per dict object)
    lastCatalog,  \* what the latest get_patterns_config() returned, at return
    lastRef,      \* which dict object the latest call returned (0: no call yet)
    dirtyAtCall,  \* whether, at the latest call, a caller had changed a dict it held
    finding,      \* the latest P20 evaluation: the instances and their results
    mutations     \* how many caller-side modifications were made

vars == <<environ, dir_path, lastQuery, instances, allocated, pc, obj, calls,
          returned, heap, lastCatalog, lastRef, dirtyAtCall, finding, mutations>>

settingsVars == <<environ, dir_path, lastQuery>>
singletonVars == <<instances, allocated, pc, obj, calls, returned>>
registryVars == <<heap, lastCatalog, lastRef, dirtyAtCall, finding, mutations>>

-----------------------------------------------------------------------------
(* Bounds of the model.                                                    *)

\* at most this many environment variables are set at the same time
MaxOverrides == 2
\* threads calling Config() concurrently
NumThreads == 2
\* Config() calls per thread
MaxCalls == 2
\* catalog dicts alive at once
MaxCatalogs == 1
\* caller-side modifications of returned catalogs
MaxMutations == 2
\* largest declaration-to-use distance of the evaluated ASTs
MaxDistance == 7

-----------------------------------------------------------------------------
(* Python str values, as sequences of characters.                          *)

STR_aibolit == <<"a","i","b","o","l","i","t">>
STR_binary_files == <<"b","i","n","a","r","y","_","f","i","l","e","s">>
STR_model_pkl == <<"m","o","d","e","l",".","p","k","l">>
STR_scripts == <<"s","c","r","i","p","t","s">>
STR_target == <<"t","a","r","g","e","t">>
STR_dataset_csv == <<"d","a","t","a","s","e","t",".","c","s","v">>
STR_default_home ==
    <<"/","h","o","m","e","/","j","o","v","y","a","n","/","a","i","b","o","l","i","t">>

None == [type |-> "None", v |-> <<>>]
Str(s) == [type |-> "str", v |-> s]

\* Python truthiness of what os.environ.get returns: None and '' are falsy
Truthy(x) == x.type # "None" /\ x.v # <<>>

\* x or y
PyOr(x, y) == IF Truthy(x) THEN x ELSE y

\* os.environ.get(key)
EnvironGet(e, key) == IF key \in DOMAIN e THEN Str(e[key]) ELSE None

-----------------------------------------------------------------------------
(* pathlib.Path(first, *rest) on POSIX, and its str().                     *)

RECURSIVE LeadingSlashes(_)
LeadingSlashes(s) ==
    IF s = <<>> \/ Head(s) # "/" THEN 0 ELSE 1 + LeadingSlashes(Tail(s))

\* posixpath.join(a, b) for a relative b: one separator unless a ends with one
JoinOne(a, b) ==
    IF b # <<>> /\ Head(b) = "/" THEN b
    ELSE IF a = <<>> \/ a[Len(a)] = "/" THEN a \o b
    ELSE a \o <<"/">> \o b

RECURSIVE PosixJoin(_, _)
PosixJoin(a, rest) ==
    IF rest = <<>> THEN a ELSE PosixJoin(JoinOne(a, Head(rest)), Tail(rest))

\* s.split('/')
RECURSIVE SplitSep(_, _)
SplitSep(s, cur) ==
    IF s = <<>> THEN <<cur>>
    ELSE IF Head(s) = "/" THEN <<cur>> \o SplitSep(Tail(s), <<>>)
    ELSE SplitSep(Tail(s), Append(cur, Head(s)))

\* the parts pathlib keeps: neither empty nor '.'
RECURSIVE KeptParts(_)
KeptParts(ps) ==
    IF ps = <<>> THEN <<>>
    ELSE IF Head(ps) = <<>> \/ Head(ps) = <<".">> THEN KeptParts(Tail(ps))
    ELSE <<Head(ps)>> \o KeptParts(Tail(ps))

\* the root of a POSIX path: '//' for exactly two leading slashes, else '/' or ''
PosixRoot(s) ==
    LET n == LeadingSlashes(s) IN
    IF n = 0 THEN <<>> ELSE IF n = 2 THEN <<"/","/">> ELSE <<"/">>

RECURSIVE JoinParts(_)
JoinParts(ps) ==
    IF ps = <<>> THEN <<>>
    ELSE IF Len(ps) = 1 THEN Head(ps)
    ELSE Head(ps) \o <<"/">> \o JoinParts(Tail(ps))

\* str(Path(first, *rest))
PathStr(first, rest) ==
    LET raw == PosixJoin(first, rest)
        root == PosixRoot(raw)
        tail == KeptParts(SplitSep(raw, <<>>))
    IN  IF root = <<>> /\ tail = <<>> THEN <<".">> ELSE root \o JoinParts(tail)

Path(first, rest) == [type |-> "Path", v |-> PathStr(first, rest)]

-----------------------------------------------------------------------------
(* Singleton.__call__, run without interruption (one thread).              *)

\* the dict Singleton._instances after a call Config()
InstancesAfterCall(inst, n) ==
    IF "Config" \in DOMAIN inst THEN inst ELSE [c \in {"Config"} |-> n + 1]

\* the number of Config objects constructed after a call Config()
AllocatedAfterCall(inst, n) == IF "Config" \in DOMAIN inst THEN n ELSE n + 1

-----------------------------------------------------------------------------
(* The settings accessors of Config.                                       *)

home_aibolit_folder(e) ==
    PyOr(EnvironGet(e, "HOME_AIBOLIT"), Str(STR_default_home))

folder_to_save_model_data_wrong_home(e) ==
    PyOr(EnvironGet(e, "SAVE_MODEL_FOLDER"),
         Path(STR_default_home, <<STR_aibolit, STR_binary_files>>))

folder_to_save_model_data(e) ==
    LET model_folder ==
            Path(home_aibolit_folder(e).v, <<STR_aibolit, STR_binary_files>>)
    IN  PyOr(EnvironGet(e, "SAVE_MODEL_FOLDER"), model_folder)

folder_model_data(e, dp) ==
    LET model_file == Path(Path(dp, <<>>).v, <<STR_binary_files, STR_model_pkl>>)
    IN  PyOr(EnvironGet(e, "HOME_MODEL_FOLDER"), model_file)

dataset_file_wrong_key(e) ==
    PyOr(EnvironGet(e, "HOME_TRAIN_DATASET"),
         Path(home_aibolit_folder(e).v, <<STR_scripts, STR_target, STR_dataset_csv>>))

dataset_file(e) ==
    LET dataset_path ==
            Path(home_aibolit_folder(e).v, <<STR_scripts, STR_target, STR_dataset_csv>>)
    IN  PyOr(EnvironGet(e, "HOME_DATASET_CSV"), dataset_path)

train_csv_with_default(e) ==
    PyOr(EnvironGet(e, "HOME_TRAIN_DATASET"),
         Path(home_aibolit_folder(e).v, <<STR_scripts, STR_target, STR_dataset_csv>>))

train_csv(e) == EnvironGet(e, "HOME_TRAIN_DATASET")

test_csv(e) == EnvironGet(e, "HOME_TEST_DATASET")

\* the accessors, and the environment variable each one reads first
Accessors == {"home_aibolit_folder", "folder_to_save_model_data",
              "folder_model_data", "dataset_file", "train_csv", "test_csv"}

OverrideOf(fn) ==
    CASE fn = "home_aibolit_folder" -> "HOME_AIBOLIT"
      [] fn = "folder_to_save_model_data" -> "SAVE_MODEL_FOLDER"
      [] fn = "folder_model_data" -> "HOME_MODEL_FOLDER"
      [] fn = "dataset_file" -> "HOME_DATASET_CSV"
      [] fn = "train_csv" -> "HOME_TRAIN_DATASET"
      [] fn = "test_csv" -> "HOME_TEST_DATASET"

\* the accessors whose body calls Config() (lines 120 and 133)
CallsConfig(fn) == fn \in {"folder_to_save_model_data", "dataset_file"}

Accessor(fn, e, dp) ==
    CASE fn = "home_aibolit_folder" -> home_aibolit_folder(e)
      [] fn = "folder_to_save_model_data" -> folder_to_save_model_data(e)
      [] fn = "folder_model_data" -> folder_model_data(e, dp)
      [] fn = "dataset_file" -> dataset_file(e)
      [] fn = "train_csv" -> train_csv(e)
      [] fn = "test_csv" -> test_csv(e)

EnvNames == {OverrideOf(fn) : fn \in Accessors}

\* the values the environment variables take in the model
EnvValues ==
    { <<>>, <<"/">>, <<"h">>, <<"/","h","/">>, <<"/","/","h">>,
      <<"/","/","/","h">>, <<"h","/",".","/","d">>, <<".",".">> }

\* where the package may be installed (realpath: absolute and normalised)
PackageDirs == { <<"/","p">>, <<"/","s","/","p">> }

NoQuery == [fn |-> "none", result |-> None]

-----------------------------------------------------------------------------
(* Settings: the environment changes, and accessors are queried.           *)

\* os.environ[key] = value (or the variable set before the process started)
SetEnv(key, value) ==
    /\ Cardinality(DOMAIN environ \cup {key}) <= MaxOverrides
    /\ environ' = [k \in DOMAIN environ \cup {key} |->
                      IF k = key THEN value ELSE environ[k]]
    /\ lastQuery' = NoQuery
    /\ UNCHANGED <<dir_path, singletonVars, registryVars>>

\* del os.environ[key]
UnsetEnv(key) ==
    /\ key \in DOMAIN environ
    /\ environ' = [k \in DOMAIN environ \ {key} |-> environ[k]]
    /\ lastQuery' = NoQuery
    /\ UNCHANGED <<dir_path, singletonVars, registryVars>>

\* Config.<fn>()
Query(fn) ==
    /\ lastQuery' = [fn |-> fn, result |-> Accessor(fn, environ, dir_path)]
    /\ instances' = IF CallsConfig(fn)
                    THEN InstancesAfterCall(instances, allocated) ELSE instances
    /\ allocated' = IF CallsConfig(fn)
                    THEN AllocatedAfterCall(instances, allocated) ELSE allocated
    /\ UNCHANGED <<environ, dir_path, pc, obj, calls, returned, registryVars>>

-----------------------------------------------------------------------------
(* The catalog: Config.get_patterns_config().                              *)
(* A factory ('make') is the class itself or a lambda closing over fixed   *)
(* arguments: [cls, closure, args, tags, fn], args the numeric arguments,  *)
(* tags the node types or keyword flags passed to the constructor, and fn  *)
(* the identity of the function object: 0 for a class, which is one        *)
(* module-level object, and for a lambda the evaluation of the literal     *)
(* that created it.  Python compares functions by identity, so equality of *)
(* two factories, and of the dicts and lists holding them, is equality of  *)
(* these records.                                                          *)

Direct(cls) ==
    [cls |-> cls, closure |-> FALSE, args |-> <<>>, tags |-> <<>>, fn |-> 0]
Closure(cls, args, tags) ==
    [cls |-> cls, closure |-> TRUE, args |-> args, tags |-> tags, fn |-> 0]
Entry(name, code, make) == [name |-> name, code |-> code, make |-> make]

\* entry['make'](): the analyzer instance the factory builds
Invoke(make) == [cls |-> make.cls, args |-> make.args, tags |-> make.tags]

PatternEntries ==
    <<
      Entry("Asserts", "P1", Direct("P1")),
      Entry("Setters", "P2", Direct("P2")),
      Entry("Empty Rethrow", "P3", Direct("P3")),
      Entry("Prohibited class name", "P4", Direct("P4")),
      Entry("Force Type Casting", "P5", Direct("P5")),
      Entry("Count If Return", "P6", Direct("P6")),
      Entry("Implements Multi", "P7", Direct("P7")),
      Entry("Instance of", "P8", Direct("P8")),
      Entry("Many primary constructors", "P9", Direct("P9")),
      Entry("Method chain", "P10", Direct("P10")),
      Entry("Multiple try", "P11", Direct("P11")),
      Entry("Non final attribute", "P12", Direct("P12")),
      Entry("Null check", "P13", Direct("P13")),
      Entry("Partial synchronized", "P14", Direct("P14")),
      Entry("Redundant catch", "P15", Direct("P15")),
      Entry("Return null", "P16", Direct("P16")),
      Entry("String concat", "P17", Direct("P17")),
      Entry("Super Method", "P18", Direct("P18")),
      Entry("This in constructor", "P19", Direct("P19")),
      Entry("Var declaration distance for 5 lines", "P20_5", Closure("P20", <<5>>, <<>>)),
      Entry("Var declaration distance for 7 lines", "P20_7", Closure("P20", <<7>>, <<>>)),
      Entry("Var declaration distance for 11 lines", "P20_11", Closure("P20", <<11>>, <<>>)),
      Entry("Var in the middle", "P21", Direct("P21")),
      Entry("Array as function argument", "P22", Direct("P22")),
      Entry("Joined validation", "P23", Direct("P23")),
      Entry("Non final class", "P24", Direct("P24")),
      Entry("Private static method", "P25", Direct("P25")),
      Entry("Public static method", "P26", Direct("P26")),
      Entry("Var siblings", "P27", Direct("P27")),
      Entry("Null Assignment", "P28", Direct("P28")),
      Entry("Multiple While", "P29", Direct("P29")),
      Entry("Protected Method", "P30", Direct("P30")),
      Entry("Send Null", "P31", Direct("P31")),
      Entry("Nested Loop", "P32", Closure("P32", <<2>>, <<"DO_STATEMENT", "FOR_STATEMENT", "WHILE_STATEMENT">>)),
      Entry("Incomplete For", "P33", Direct("P33"))
    >>

MetricEntries ==
    <<
      Entry("Entropy", "M1", Direct("M1")),
      Entry("NCSS lightweight", "M2", Direct("M2")),
      Entry("Indentation counter: Right total variance", "M3_1", Closure("M3", <<>>, <<"right_var">>)),
      Entry("Indentation counter: Left total variance", "M3_2", Closure("M3", <<>>, <<"left_var">>)),
      Entry("Indentation counter: Right max variance", "M3_3", Closure("M3", <<>>, <<"max_right">>)),
      Entry("Indentation counter: Left max variance", "M3_4", Closure("M3", <<>>, <<"max_left">>)),
      Entry("Cognitive Complexity", "M4", Direct("M4")),
      Entry("LCOM4", "M5", Direct("M5")),
      Entry("Max diameter of AST", "M6", Direct("M6")),
      Entry("Number of variables", "M7", Direct("M7")),
      Entry("Number of methods", "M8", Direct("M8")),
      Entry("Responce for class", "M9", Direct("M9")),
      Entry("Fan out", "M10", Direct("M10")),
      Entry("Cyclomatic Complexity", "M11", Direct("M11"))
    >>

PatternsExclude == <<"P9">>

MetricsExclude == <<"M1", "M3_1", "M3_2", "M3_3", "M3_4", "M5", "M7", "M8">>

\* a dict is a function on its keys; {} has none
EmptyDict == [k \in {} |-> ""]

WithPatterns(ps) ==
    [patterns |-> ps, metrics |-> MetricEntries, target |-> EmptyDict,
     patterns_exclude |-> PatternsExclude, metrics_exclude |-> MetricsExclude]

\* the entry of P20_7 given the code of P20_5
LiteralDuplicatePatternCode ==
    WithPatterns([PatternEntries EXCEPT ![21].code = "P20_5"])

\* the factory of P20_7 closing over the threshold of P20_5
LiteralSameThreshold ==
    WithPatterns([PatternEntries EXCEPT ![21].make.args = <<5>>])

\* the entry of M10 given the code of M11
LiteralDuplicateMetricCode ==
    [WithPatterns(PatternEntries) EXCEPT
        !.metrics = [MetricEntries EXCEPT ![13].code = "M11"]]

\* 'M3' excluded where 'M3_1' is meant
LiteralDanglingExclude ==
    [WithPatterns(PatternEntries) EXCEPT
        !.metrics_exclude = [MetricsExclude EXCEPT ![2] = "M3"]]

\* the dict literal that get_patterns_config returns
PatternsConfigLiteral ==
    [patterns |-> PatternEntries, metrics |-> MetricEntries, target |-> EmptyDict,
     patterns_exclude |-> PatternsExclude, metrics_exclude |-> MetricsExclude]

\* the entries of one evaluation of the literal: each lambda expression makes
\* a new function object
NewLambdas(entries, id) ==
    [i \in DOMAIN entries |->
        IF entries[i].make.closure
        THEN [entries[i] EXCEPT !.make.fn = id] ELSE entries[i]]

\* the dict object that evaluation number id of the literal builds
Evaluated(literal, id) ==
    [literal EXCEPT !.patterns = NewLambdas(@, id), !.metrics = NewLambdas(@, id)]

\* the dict objects that the successive evaluations of the literal build
EvaluatedAt ==
    [id \in 1..(MaxCatalogs + 1) |-> Evaluated(PatternsConfigLiteral, id)]

\* one module-level dict, built on the first call and handed out ever after
get_patterns_config_cached(h) ==
    IF h = <<>> THEN [heap |-> <<EvaluatedAt[1]>>, ref |-> 1]
    ELSE [heap |-> h, ref |-> 1]

\* Config.get_patterns_config(): evaluating the literal builds a new dict, with
\* new lists, new entry dicts and new lambdas, on every call; ref is the object
\* returned, placed after the dicts that callers still hold
get_patterns_config(h) ==
    [heap |-> Append(h, EvaluatedAt[Len(h) + 1]), ref |-> Len(h) + 1]

Namespaces == {"patterns", "metrics"}
ExcludeKey(ns) == IF ns = "patterns" THEN "patterns_exclude" ELSE "metrics_exclude"

SeqToSet(s) == {s[i] : i \in DOMAIN s}
Codes(entries) == [i \in DOMAIN entries |-> entries[i].code]

\* the first entry of a list with the given code
EntryOf(entries, code) ==
    entries[CHOOSE i \in DOMAIN entries :
                /\ entries[i].code = code
                /\ \A j \in 1..(i - 1) : entries[j].code # code]

\* an AST with one variable, declared on one line and first used on another
Ast(d) == [decl_line |-> 1, use_line |-> 1 + d]

\* VarDeclarationDistance(lines_th).value(ast): the use is reported when it is
\* more than lines_th lines after the declaration
VarDeclarationDistance_value(inst, ast) ==
    IF ast.use_line - ast.decl_line > inst.args[1]
    THEN <<ast.use_line>> ELSE <<>>

\* the variants of P20, in catalog order
P20Codes == <<"P20_5", "P20_7", "P20_11">>

\* what a caller may do to a catalog dict it holds
MutationKinds ==
    {"patterns.recode", "patterns_exclude.append", "metrics_exclude.clear",
     "target.set"}

CanMutate(cfg, kind) ==
    kind = "patterns.recode" => cfg.patterns # <<>>

Mutated(cfg, kind) ==
    CASE kind = "patterns.recode" ->
            [cfg EXCEPT !.patterns[1].code = "P2"]
      [] kind = "patterns_exclude.append" ->
            [cfg EXCEPT !.patterns_exclude = Append(@, "P999")]
      [] kind = "metrics_exclude.clear" ->
            [cfg EXCEPT !.metrics_exclude = <<>>]
      [] kind = "target.set" ->
            [cfg EXCEPT !.target = [k \in {"k"} |-> "v"]]

NoFinding == [a |-> "", b |-> "", distance |-> 0,
              inst_a |-> Invoke(Direct("")), inst_b |-> Invoke(Direct("")),
              value_a |-> <<>>, value_b |-> <<>>]

-----------------------------------------------------------------------------
(* Registry: callers query the catalog, change what they were handed,      *)
(* and build and run analyzers.                                            *)

\* cfg = Config.get_patterns_config(), and the caller keeps cfg
GetPatternsConfigKeep ==
    LET r == get_patterns_config(heap) IN
    /\ Len(heap) < MaxCatalogs
    /\ heap' = r.heap
    /\ lastCatalog' = <<r.heap[r.ref]>>
    /\ lastRef' = r.ref
    /\ dirtyAtCall' = (mutations > 0)
    /\ finding' = NoFinding
    /\ UNCHANGED <<mutations, settingsVars, singletonVars>>

\* Config.get_patterns_config(), read at once and not kept
GetPatternsConfigDrop ==
    LET r == get_patterns_config(heap) IN
    /\ lastCatalog' = <<r.heap[r.ref]>>
    /\ lastRef' = r.ref
    /\ dirtyAtCall' = (mutations > 0)
    /\ finding' = NoFinding
    /\ UNCHANGED <<heap, mutations, settingsVars, singletonVars>>

\* a caller changes, in place, a catalog dict it was handed earlier
Mutate(ref, kind) ==
    /\ mutations < MaxMutations
    /\ ref \in DOMAIN heap
    /\ CanMutate(heap[ref], kind)
    /\ heap' = [heap EXCEPT ![ref] = Mutated(@, kind)]
    /\ mutations' = mutations + 1
    /\ UNCHANGED <<lastCatalog, lastRef, dirtyAtCall, finding,
                   settingsVars, singletonVars>>

\* a caller builds two variants of P20 and runs both on one AST
Evaluate(a, b, d) ==
    LET r == get_patterns_config(heap)
        cfg == r.heap[r.ref]
        ia == Invoke(EntryOf(cfg.patterns, a).make)
        ib == Invoke(EntryOf(cfg.patterns, b).make)
    IN  /\ {a, b} \subseteq SeqToSet(Codes(cfg.patterns))
        /\ lastCatalog' = <<cfg>>
        /\ lastRef' = r.ref
        /\ dirtyAtCall' = (mutations > 0)
        /\ finding' = [a |-> a, b |-> b, distance |-> d,
                       inst_a |-> ia, inst_b |-> ib,
                       value_a |-> VarDeclarationDistance_value(ia, Ast(d)),
                       value_b |-> VarDeclarationDistance_value(ib, Ast(d))]
            /\ UNCHANGED <<heap, mutations, settingsVars, singletonVars>>

-----------------------------------------------------------------------------
(* Singleton.__call__ run by several threads: the membership test, the     *)
(* construction, the store and the final read are separate steps.          *)

Threads == 1..NumThreads

\* a thread starts a call Config()
Call(t) ==
    /\ pc[t] = "idle"
    /\ calls[t] < MaxCalls
    /\ calls' = [calls EXCEPT ![t] = @ + 1]
    /\ pc' = [pc EXCEPT ![t] = "test"]
    /\ UNCHANGED <<instances, allocated, obj, returned, settingsVars, registryVars>>

\* if cls not in cls._instances:
Test(t) ==
    /\ pc[t] = "test"
    /\ pc' = [pc EXCEPT ![t] =
                IF "Config" \notin DOMAIN instances THEN "construct" ELSE "return"]
    /\ UNCHANGED <<instances, allocated, obj, calls, returned,
                   settingsVars, registryVars>>

\* super(Singleton, cls).__call__(*args, **kwargs)
Construct(t) ==
    /\ pc[t] = "construct"
    /\ allocated' = allocated + 1
    /\ obj' = [obj EXCEPT ![t] = allocated + 1]
    /\ pc' = [pc EXCEPT ![t] = "store"]
    /\ UNCHANGED <<instances, calls, returned, settingsVars, registryVars>>

\* cls._instances[cls] = <the new object>
Store(t) ==
    /\ pc[t] = "store"
    /\ instances' = [c \in {"Config"} |-> obj[t]]
    /\ pc' = [pc EXCEPT ![t] = "return"]
    /\ UNCHANGED <<allocated, obj, calls, returned, settingsVars, registryVars>>

\* return cls._instances[cls]
Return(t) ==
    /\ pc[t] = "return"
    /\ returned' = returned \cup {instances["Config"]}
    /\ pc' = [pc EXCEPT ![t] = "idle"]
    /\ UNCHANGED <<instances, allocated, obj, calls, settingsVars, registryVars>>

-----------------------------------------------------------------------------
(* The specifications.                                                     *)

Init ==
    /\ environ = [k \in {} |-> <<>>]
    /\ dir_path \in PackageDirs
    /\ lastQuery = NoQuery
    /\ instances = [c \in {} |-> 0]
    /\ allocated = 0
    /\ pc = [t \in Threads |-> "idle"]
    /\ obj = [t \in Threads |-> 0]
    /\ calls = [t \in Threads |-> 0]
    /\ returned = {}
    /\ heap = <<>>
    /\ lastCatalog = <<>>
    /\ lastRef = 0
    /\ dirtyAtCall = FALSE
    /\ finding = NoFinding
    /\ mutations = 0

NextSettings ==
    \/ \E key \in EnvNames, value \in EnvValues : SetEnv(key, value)
    \/ \E key \in EnvNames : UnsetEnv(key)
    \/ \E fn \in Accessors : Query(fn)

NextSingleton ==
    \E t \in Threads : Call(t) \/ Test(t) \/ Construct(t) \/ Store(t) \/ Return(t)

NextRegistry ==
    \/ GetPatternsConfigKeep
    \/ GetPatternsConfigDrop
    \/ \E ref \in 1..MaxCatalogs, kind \in MutationKinds : Mutate(ref, kind)
    \/ \E i \in DOMAIN P20Codes, j \in DOMAIN P20Codes, d \in 0..MaxDistance :
          i < j /\ Evaluate(P20Codes[i], P20Codes[j], d)

SpecSettings == Init /\ [][NextSettings]_vars
SpecSingleton == Init /\ [][NextSingleton]_vars
SpecRegistry == Init /\ [][NextRegistry]_vars

-----------------------------------------------------------------------------
(* Properties of the catalog (SpecRegistry).                               *)

Unique(s) == \A i \in DOMAIN s, j \in DOMAIN s : i # j => s[i] # s[j]

\* C1: in the catalog that get_patterns_config() returns, no code occurs twice
\* in the 'patterns' list and no code occurs twice in the 'metrics' list.
C1_CodesUnique ==
    lastCatalog # <<>> =>
        /\ Unique(Codes(lastCatalog[1].patterns))
        /\ Unique(Codes(lastCatalog[1].metrics))

\* a catalog was returned, with all its pattern and metric entries, while a
\* caller holds an earlier one in which it has made two codes equal
C1_Witness ==
    /\ heap # <<>>
    /\ ~Unique(Codes(heap[1].patterns))
    /\ lastCatalog # <<>>
    /\ Len(lastCatalog[1].patterns) > 30
    /\ Len(lastCatalog[1].metrics) > 10

\* C2: in the catalog that get_patterns_config() returns, every code of
\* 'patterns_exclude' is the code of an entry of 'patterns' and every code of
\* 'metrics_exclude' is the code of an entry of 'metrics', so each excluded code
\* has an entry whose factory can be invoked.
C2_NoDanglingExclusions ==
    lastCatalog # <<>> =>
        \A ns \in Namespaces :
            \A c \in SeqToSet(lastCatalog[1][ExcludeKey(ns)]) :
                \E i \in DOMAIN lastCatalog[1][ns] :
                    /\ lastCatalog[1][ns][i].code = c
                    /\ Invoke(lastCatalog[1][ns][i].make).cls # ""

\* a catalog was returned whose two exclude lists are not empty, while a caller
\* holds an earlier one to which it has added an unknown exclusion
C2_Witness ==
    /\ heap # <<>>
    /\ "P999" \in SeqToSet(heap[1].patterns_exclude)
    /\ lastCatalog # <<>>
    /\ lastCatalog[1].patterns_exclude # <<>>
    /\ Len(lastCatalog[1].metrics_exclude) > 1

\* what a catalog dict says, whichever function objects its factories are:
\* per entry the name, the code and the analyzer the factory builds, and the
\* exclude lists and the target map
Says(cfg) ==
    LET Told(entries) ==
            [i \in DOMAIN entries |->
                [name |-> entries[i].name, code |-> entries[i].code,
                 builds |-> Invoke(entries[i].make)]]
    IN  [patterns |-> Told(cfg.patterns), metrics |-> Told(cfg.metrics),
         target |-> cfg.target, patterns_exclude |-> cfg.patterns_exclude,
         metrics_exclude |-> cfg.metrics_exclude]

\* what the first call of get_patterns_config() in a process returns
FirstReturned == get_patterns_config(<<>>).heap[1]

\* C6 as stated: the registry is constructed once, so every call of
\* get_patterns_config() returns the one dict object the first call built, and
\* its patterns, metrics, exclude lists and target are equal to those of the
\* first call.
C6_ConstructedOnce ==
    lastCatalog # <<>> =>
        /\ lastRef = 1
        /\ lastCatalog[1] = FirstReturned

\* C6, amended: the registry is built anew by every call.  A call returns a
\* dict that is none of the dicts handed out before, and that says the same on
\* every call (names, codes, the analyzers the factories build, exclude lists,
\* target), whatever callers did to the dicts they were handed; and a call
\* changes no dict handed out earlier.
C6_RebuiltSameEveryCall ==
    [][/\ lastCatalog' # <<>> =>
             /\ Says(lastCatalog'[1]) = Says(FirstReturned)
             /\ lastRef' >= Len(heap')
             /\ lastRef' >= 1
       /\ mutations' = mutations =>
             \A ref \in DOMAIN heap : ref \in DOMAIN heap' /\ heap'[ref] = heap[ref]
      ]_vars

\* a call was made while a caller held a dict it had changed twice, and the
\* call returned another dict, with the exclude list as declared
C6_Witness ==
    /\ dirtyAtCall
    /\ heap # <<>>
    /\ heap[1].patterns_exclude # PatternsExclude
    /\ heap[1].target # EmptyDict
    /\ lastRef = Len(heap) + 1
    /\ lastCatalog # <<>>
    /\ lastCatalog[1].patterns_exclude = PatternsExclude

\* the threshold each variant of P20 is declared for
ThresholdOf(code) ==
    CASE code = "P20_5" -> 5 [] code = "P20_7" -> 7 [] code = "P20_11" -> 11

\* C9: the factories of P20_5, P20_7 and P20_11 build instances of the one
\* algorithm P20 with thresholds 5, 7 and 11, and on an AST whose variable is
\* declared 6 lines before its use the instances of P20_5 and P20_7 disagree:
\* the first flags it, the second does not.
C9_VariantsConfigured ==
    finding.a # "" =>
        /\ finding.inst_a.cls = "P20" /\ finding.inst_a.args = <<ThresholdOf(finding.a)>>
        /\ finding.inst_b.cls = "P20" /\ finding.inst_b.args = <<ThresholdOf(finding.b)>>
        /\ (finding.a = "P20_5" /\ finding.b = "P20_7" /\ finding.distance = 6) =>
              /\ finding.value_a # finding.value_b
              /\ finding.value_a # <<>>
              /\ finding.value_b = <<>>

\* P20_5 and P20_7 were built and run on a declaration 6 lines before the use
C9_Witness ==
    /\ finding.a = "P20_5"
    /\ finding.b = "P20_7"
    /\ finding.distance = 6
    /\ finding.value_a # <<>>

-----------------------------------------------------------------------------
(* Properties of the settings accessors (SpecSettings).                    *)

Queried(fn) == lastQuery.fn = fn

\* the environment e with the variable key absent
Without(e, key) == [k \in DOMAIN e \ {key} |-> e[k]]
OverrideSet(fn) == OverrideOf(fn) \in DOMAIN environ

\* C3 as stated: whenever the override of a location is set, querying the
\* location returns the override value, whatever the value is.
C3_OverrideAlwaysWins ==
    \A fn \in Accessors :
        (Queried(fn) /\ OverrideSet(fn)) =>
            lastQuery.result = Str(environ[OverrideOf(fn)])

\* C3, amended: whenever the override of a location is set to a non-empty
\* value, querying the location returns exactly that value, as a str; the train
\* and test locations return the override even when it is the empty string,
\* and the other four treat an empty override as absent.
C3_NonEmptyOverrideWins ==
    \A fn \in Accessors :
        (Queried(fn) /\ OverrideSet(fn)) =>
            IF environ[OverrideOf(fn)] # <<>> \/ fn \in {"train_csv", "test_csv"}
            THEN lastQuery.result = Str(environ[OverrideOf(fn)])
            ELSE lastQuery.result = Accessor(fn, Without(environ, OverrideOf(fn)), dir_path)

\* the dataset location was queried with its override and the home override set
C3_Witness ==
    /\ Queried("dataset_file")
    /\ OverrideSet("dataset_file")
    /\ environ["HOME_DATASET_CSV"] # <<>>
    /\ OverrideSet("home_aibolit_folder")
    /\ lastQuery.result.type = "str"

\* the locations with a computed default, and the sub-path of each
Defaulted == {"folder_to_save_model_data", "folder_model_data", "dataset_file"}

SubPath(fn) ==
    CASE fn = "folder_to_save_model_data" -> <<STR_aibolit, STR_binary_files>>
      [] fn = "folder_model_data" -> <<STR_binary_files, STR_model_pkl>>
      [] fn = "dataset_file" -> <<STR_scripts, STR_target, STR_dataset_csv>>

\* r is the path of base followed by the components of sub: the components of
\* r are those of base and then sub, r is anchored as base is, and r has no
\* empty or '.' component and no trailing separator
IsJoined(r, base, sub) ==
    LET parts == SplitSep(r, <<>>)
        skip == IF PosixRoot(r) = <<>> THEN 0 ELSE Len(PosixRoot(r))
        body == SubSeq(r, skip + 1, Len(r))
    IN  /\ PosixRoot(r) = PosixRoot(base)
        /\ KeptParts(parts) = KeptParts(SplitSep(base, <<>>)) \o sub
        /\ SplitSep(body, <<>>) = KeptParts(parts)

\* the home folder location now
HomeNow == home_aibolit_folder(environ).v

\* C4 as stated: with its own override absent, each of the save-model folder,
\* the model file and the dataset CSV is the home folder joined with a fixed
\* relative sub-path.
C4_DefaultsFollowHome ==
    \A fn \in Defaulted :
        (Queried(fn) /\ ~OverrideSet(fn)) =>
            /\ lastQuery.result.type = "Path"
            /\ IsJoined(lastQuery.result.v, HomeNow, SubPath(fn))

\* C4, amended: with its own override absent, the save-model folder and the
\* dataset CSV are the home folder joined with aibolit/binary_files and
\* scripts/target/dataset.csv; the model file is the directory of the installed
\* config.py joined with binary_files/model.pkl, whatever the home folder is.
C4_DefaultsFromHomeOrPackage ==
    \A fn \in Defaulted :
        (Queried(fn) /\ ~OverrideSet(fn)) =>
            /\ lastQuery.result.type = "Path"
            /\ IsJoined(lastQuery.result.v,
                        IF fn = "folder_model_data" THEN dir_path ELSE HomeNow,
                        SubPath(fn))

\* the save-model folder was queried with no override of its own, the home
\* folder being overridden
C4_Witness ==
    /\ Queried("folder_to_save_model_data")
    /\ ~OverrideSet("folder_to_save_model_data")
    /\ OverrideSet("home_aibolit_folder")
    /\ environ["HOME_AIBOLIT"] # <<>>

\* C7: with HOME_TRAIN_DATASET (HOME_TEST_DATASET) absent, the train (test)
\* location is None, whatever the home folder and the other overrides are.
C7_TrainTestNoDefault ==
    \A fn \in {"train_csv", "test_csv"} :
        (Queried(fn) /\ ~OverrideSet(fn)) => lastQuery.result = None

\* the train location was queried with its override absent and others set
C7_Witness ==
    /\ Queried("train_csv")
    /\ ~OverrideSet("train_csv")
    /\ OverrideSet("home_aibolit_folder")
    /\ OverrideSet("dataset_file")
    /\ lastQuery.result = None

-----------------------------------------------------------------------------
(* Properties of the singleton (SpecSingleton).                            *)

\* C10: at most one Config object is ever constructed and every call Config()
\* returns that one object, however the calls of several threads interleave.
C10_AtMostOneInstance ==
    /\ allocated <= 1
    /\ Cardinality(returned) <= 1

====
